---- MODULE Spec2Model ----
(***************************************************************************)
(* Model of debate_crew.py: the module-level configuration, the round      *)
(* loop of main, run_debate_round and the final summary crew.              *)
(*                                                                         *)
(* A text is a sequence of one-character strings, so that str.strip,       *)
(* str.upper and the substring test `in` are computed as Python computes   *)
(* them.  A task is identified by its agent role and the round that built  *)
(* it; a context is a sequence of such identities.                         *)
(***************************************************************************)
EXTENDS Integers, Sequences, FiniteSets, TLC

VARIABLES
    pc,                 \* position of the process
    OPENROUTER_API_KEY, \* TRUE iff os.getenv returned a non-empty value
    MAX_ROUNDS,         \* int(os.getenv("MAX_DEBATE_ROUNDS", "5"))
    all_debate_tasks,   \* main's list of Proponent/Opponent tasks
    round_num,          \* main's round counter
    should_continue,    \* main's loop flag
    tasks,              \* the task list built by the current run_debate_round
    calls,              \* the task executions made by Crew.kickoff, in order
    rounds_started,     \* the round_num of every run_debate_round call
    evals,              \* str(round_result) of every completed round
    decisions,          \* the should_continue returned by every completed round
    branches,           \* the branch main took after every completed round
    final_summary,      \* 0, or the index in calls of the call that produced it
    failed_call,        \* 0, or the index in calls of the call that raised
    exit_code,          \* "running", "exit0" or "raised"
    argv_topic,         \* sys.argv[1] if len(sys.argv) > 1 else None
    typed,              \* what input() returned, if main called it
    topic,              \* main's topic
    prompts,            \* the task descriptions built so far, with their topic
    in_flight,          \* the task executions begun and not yet returned or raised
    previous_tasks_passed  \* the previous_tasks of every run_debate_round call

vars == <<pc, OPENROUTER_API_KEY, MAX_ROUNDS, all_debate_tasks, round_num,
          should_continue, tasks, calls, rounds_started, evals, decisions,
          branches, final_summary, failed_call, exit_code, argv_topic, typed,
          topic, prompts, in_flight, previous_tasks_passed>>

\* Largest configured MAX_DEBATE_ROUNDS explored.
MaxRoundsBound == 3

-----------------------------------------------------------------------------
(* Texts *)

LowerCase == <<"a","b","c","d","e","f","g","h","i","j","k","l","m",
               "n","o","p","q","r","s","t","u","v","w","x","y","z">>

UpperCase == <<"A","B","C","D","E","F","G","H","I","J","K","L","M",
               "N","O","P","Q","R","S","T","U","V","W","X","Y","Z">>

Whitespace == {" ", "\n", "\t"}

\* str.upper on one character
UpperChar(c) ==
    IF \E i \in 1..Len(LowerCase) : LowerCase[i] = c
    THEN UpperCase[CHOOSE i \in 1..Len(LowerCase) : LowerCase[i] = c]
    ELSE c

\* str.upper
Upper(s) == [i \in 1..Len(s) |-> UpperChar(s[i])]

RECURSIVE LStrip(_)
LStrip(s) == IF s # <<>> /\ Head(s) \in Whitespace THEN LStrip(Tail(s)) ELSE s

RECURSIVE RStrip(_)
RStrip(s) ==
    IF s # <<>> /\ s[Len(s)] \in Whitespace
    THEN RStrip(SubSeq(s, 1, Len(s) - 1))
    ELSE s

\* str.strip
Strip(s) == RStrip(LStrip(s))

\* Python's `t in s` on strings
Contains(s, t) ==
    \E i \in 1..(Len(s) - Len(t) + 1) : SubSeq(s, i, i + Len(t) - 1) = t

CONTINUE == <<"C","O","N","T","I","N","U","E">>
DONE == <<"D","O","N","E">>

\* Moderator evaluation outputs explored
TxtContinue == CONTINUE
TxtDone == DONE
TxtEmpty == <<>>
TxtGarbage == <<"m","a","y","b","e">>
TxtLowerContinue == <<"c","o","n","t","i","n","u","e">>
TxtPaddedContinue == <<" ">> \o CONTINUE \o <<"\n">>
TxtSentence == <<"N","o","t"," ">> \o CONTINUE \o <<".">>
TxtBoth == CONTINUE \o <<" ","o","r"," ">> \o DONE
TxtMixedDone == <<"D","o","n","e",".">>

EvalTexts == {TxtContinue, TxtDone, TxtEmpty, TxtGarbage, TxtLowerContinue,
              TxtPaddedContinue, TxtSentence, TxtBoth, TxtMixedDone}

-----------------------------------------------------------------------------
(* Topic *)

\* an optional string: None, or a text
NoTopic == [given |-> FALSE, text |-> <<>>]

GivenTopic(text) == [given |-> TRUE, text |-> text]

\* Python truth value of an optional string
Truthy(t) == t.given /\ t.text # <<>>

TopicAI == <<"A","I">>

TypedEmpty == <<>>
TypedBlank == <<" "," ">>
TypedTopic == <<" ">> \o TopicAI \o <<" ">>

\* command lines explored: no argument, "", "  " and "AI"
ArgvTopics == {NoTopic, GivenTopic(<<>>), GivenTopic(TypedBlank), GivenTopic(TopicAI)}

\* lines typed at the prompt explored
TypedInputs == {TypedEmpty, TypedBlank, TypedTopic}

NotTyped == [read |-> FALSE, text |-> <<>>]

Typed(text) == [read |-> TRUE, text |-> text]

\* topic = "Should artificial intelligence be regulated by governments?"
DEFAULT_TOPIC ==
    <<
      "S","h","o","u","l","d"," ","a","r","t","i","f",
      "i","c","i","a","l"," ","i","n","t","e","l","l",
      "i","g","e","n","c","e"," ","b","e"," ","r","e",
      "g","u","l","a","t","e","d"," ","b","y"," ","g",
      "o","v","e","r","n","m","e","n","t","s","?"
    >>

ResolveTopic_NoDefault(arg, line) ==
    IF Truthy(arg) THEN arg ELSE GivenTopic(Strip(line))

\* if not topic: topic = input(...).strip(); if not topic: topic = <default>
ResolveTopic(arg, line) ==
    IF Truthy(arg)
    THEN arg
    ELSE IF Strip(line) # <<>> THEN GivenTopic(Strip(line)) ELSE GivenTopic(DEFAULT_TOPIC)

\* a task description, by the agent and round it is for and the topic in it
Prompt(agent, rn, t) == [agent |-> agent, round |-> rn, topic |-> t.text]

\* the descriptions run_debate_round builds, in order
RoundPrompts(rn, t) ==
    <<Prompt("Proponent", rn, t), Prompt("Opponent", rn, t), Prompt("Moderator", rn, t)>>

-----------------------------------------------------------------------------
(* run_debate_round *)

Turn(agent, rn) == [agent |-> agent, round |-> rn]

Task(agent, rn, context) == [agent |-> agent, round |-> rn, context |-> context]

TurnOf(task) == Turn(task.agent, task.round)

\* context of the Proponent task: none for the opening, previous_tasks after
ProponentContext(rn, previous_tasks) ==
    IF rn = 1 THEN <<>> ELSE previous_tasks

OpponentContext_NoProponent(previous_tasks, proponent_task) == previous_tasks

\* opponent_context = previous_tasks + [last_proponent_task]
OpponentContext(previous_tasks, proponent_task) ==
    previous_tasks \o <<TurnOf(proponent_task)>>

PreviousTasksAfterBuild_InPlace(previous_tasks, proponent_task) ==
    Append(previous_tasks, TurnOf(proponent_task))

\* previous_tasks after run_debate_round has built its contexts: `+` makes
\* new lists and leaves the list it was given as it was
PreviousTasksAfterBuild(previous_tasks, proponent_task) == previous_tasks

EvaluationContext_RoundOnly(previous_tasks, round_tasks) ==
    [i \in 1..Len(round_tasks) |-> TurnOf(round_tasks[i])]

\* all_previous_tasks = previous_tasks + tasks
EvaluationContext(previous_tasks, round_tasks) ==
    previous_tasks \o [i \in 1..Len(round_tasks) |-> TurnOf(round_tasks[i])]

\* the three tasks of one round, as handed to the Crew
BuildRoundTasks(rn, previous_tasks) ==
    LET proponent_task == Task("Proponent", rn, ProponentContext(rn, previous_tasks))
        opponent_task == Task("Opponent", rn, OpponentContext(previous_tasks, proponent_task))
        evaluation_task == Task("Moderator", rn,
                                EvaluationContext(previous_tasks, <<proponent_task, opponent_task>>))
    IN  <<proponent_task, opponent_task, evaluation_task>>

\* decision_text = str(result).strip().upper()
DecisionText(result) == Upper(Strip(result))

ShouldContinue_ExactMatch(result, rn, max_rounds) ==
    result = CONTINUE /\ rn < max_rounds

ShouldContinue_NoRoundCheck(result, rn, max_rounds) ==
    Contains(DecisionText(result), CONTINUE)

ShouldContinue_DefaultContinue(result, rn, max_rounds) ==
    ~Contains(DecisionText(result), DONE) /\ rn < max_rounds

ShouldContinue_OffByOne(result, rn, max_rounds) ==
    Contains(DecisionText(result), CONTINUE) /\ rn + 1 < max_rounds

ShouldContinue_DoneWins(result, rn, max_rounds) ==
    /\ Contains(DecisionText(result), CONTINUE)
    /\ ~Contains(DecisionText(result), DONE)
    /\ rn < max_rounds

\* should_continue = "CONTINUE" in decision_text and round_num < max_rounds
ShouldContinue(result, rn, max_rounds) ==
    Contains(DecisionText(result), CONTINUE) /\ rn < max_rounds

-----------------------------------------------------------------------------
(* main *)

LoopGuard_Or(sc, rn, max_rounds) == sc \/ rn <= max_rounds

LoopGuard_NoBound(sc, rn, max_rounds) == sc

\* while should_continue and round_num <= MAX_ROUNDS
LoopGuard(sc, rn, max_rounds) == sc /\ rn <= max_rounds

ExtendTasks_WithEvaluation(all_tasks, round_tasks) ==
    all_tasks \o [i \in 1..Len(round_tasks) |-> TurnOf(round_tasks[i])]

ExtendTasks_Replace(all_tasks, round_tasks) ==
    [i \in 1..(Len(round_tasks) - 1) |-> TurnOf(round_tasks[i])]

\* all_debate_tasks.extend(tasks[:-1])
ExtendTasks(all_tasks, round_tasks) ==
    all_tasks \o [i \in 1..(Len(round_tasks) - 1) |-> TurnOf(round_tasks[i])]

DebateComplete_NoDoneCheck(result, rn, max_rounds) == rn >= max_rounds

\* if "DONE" in decision_text or round_num >= MAX_ROUNDS
DebateComplete(result, rn, max_rounds) ==
    Contains(DecisionText(result), DONE) \/ rn >= max_rounds

Call(crew, task) ==
    [crew |-> crew, agent |-> task.agent, round |-> task.round, context |-> task.context]

\* the summary task of create_final_summary_crew
SummaryTask(debate_tasks) == Task("Moderator", 0, debate_tasks)

-----------------------------------------------------------------------------
(* State machine *)

Init ==
    /\ pc = "import"
    /\ OPENROUTER_API_KEY \in BOOLEAN
    /\ MAX_ROUNDS \in -1..MaxRoundsBound   \* int() accepts 0 and negatives
    /\ all_debate_tasks = <<>>
    /\ round_num = 1
    /\ should_continue = TRUE
    /\ tasks = <<>>
    /\ calls = <<>>
    /\ rounds_started = <<>>
    /\ evals = <<>>
    /\ decisions = <<>>
    /\ branches = <<>>
    /\ final_summary = 0
    /\ failed_call = 0
    /\ exit_code = "running"
    /\ argv_topic \in ArgvTopics
    /\ typed = NotTyped
    /\ topic = argv_topic
    /\ prompts = <<>>
    /\ in_flight = <<>>
    /\ previous_tasks_passed = <<>>

LoadModule_NoCredentialCheck ==
    /\ pc = "import"
    /\ pc' = "main"
    /\ UNCHANGED <<in_flight, previous_tasks_passed, argv_topic, typed, topic, prompts, OPENROUTER_API_KEY, MAX_ROUNDS, all_debate_tasks, round_num,
                   should_continue, tasks, calls, rounds_started, evals,
                   decisions, branches, final_summary, failed_call, exit_code>>

\* module level: the credential check raises ValueError before main is called
LoadModule ==
    /\ pc = "import"
    /\ IF OPENROUTER_API_KEY
       THEN pc' = "main" /\ exit_code' = exit_code
       ELSE pc' = "raised" /\ exit_code' = "raised"
    /\ UNCHANGED <<in_flight, previous_tasks_passed, argv_topic, typed, topic, prompts, OPENROUTER_API_KEY, MAX_ROUNDS, all_debate_tasks, round_num,
                   should_continue, tasks, calls, rounds_started, evals,
                   decisions, branches, final_summary, failed_call>>

\* main up to the loop: the topic is settled, then all_debate_tasks = [],
\* round_num = 1, should_continue = True
MainStart ==
    /\ pc = "main"
    /\ \E line \in (IF Truthy(topic) THEN {NotTyped} ELSE {Typed(t) : t \in TypedInputs}) :
          /\ typed' = line
          /\ topic' = ResolveTopic(topic, line.text)
    /\ all_debate_tasks' = <<>>
    /\ round_num' = 1
    /\ should_continue' = TRUE
    /\ pc' = "loop"
    /\ UNCHANGED <<in_flight, previous_tasks_passed, argv_topic, prompts, OPENROUTER_API_KEY, MAX_ROUNDS, tasks, calls, rounds_started,
                   evals, decisions, branches, final_summary, failed_call, exit_code>>

\* loop test true: run_debate_round is called and builds its crew
StartRound ==
    /\ pc = "loop"
    /\ LoopGuard(should_continue, round_num, MAX_ROUNDS)
    /\ rounds_started' = Append(rounds_started, round_num)
    /\ previous_tasks_passed' = Append(previous_tasks_passed, all_debate_tasks)
    /\ tasks' = BuildRoundTasks(round_num, all_debate_tasks)
    /\ all_debate_tasks' = PreviousTasksAfterBuild(all_debate_tasks, tasks'[1])
    /\ pc' = "proponent"
    /\ prompts' = prompts \o RoundPrompts(round_num, topic)
    /\ UNCHANGED <<in_flight, argv_topic, typed, topic, OPENROUTER_API_KEY, MAX_ROUNDS, round_num,
                   should_continue, calls, evals, decisions, branches,
                   final_summary, failed_call, exit_code>>

\* loop test false: main goes on to create_final_summary_crew
LeaveLoop ==
    /\ pc = "loop"
    /\ ~LoopGuard(should_continue, round_num, MAX_ROUNDS)
    /\ tasks' = <<SummaryTask(all_debate_tasks)>>
    /\ pc' = "summary"
    /\ prompts' = Append(prompts, Prompt("Moderator", 0, topic))
    /\ UNCHANGED <<in_flight, previous_tasks_passed, argv_topic, typed, topic, OPENROUTER_API_KEY, MAX_ROUNDS, all_debate_tasks, round_num,
                   should_continue, calls, rounds_started, evals, decisions,
                   branches, final_summary, failed_call, exit_code>>

\* the task a kickoff is about to execute at each position
PendingCall ==
    CASE pc = "proponent" -> Call("round", tasks[1])
      [] pc = "opponent" -> Call("round", tasks[2])
      [] pc = "evaluation" -> Call("round", tasks[3])
      [] pc = "summary" -> Call("summary", tasks[1])

BeginCall_Async ==
    /\ pc \in {"proponent", "opponent", "evaluation", "summary"}
    /\ in_flight = <<>>
    /\ in_flight' = IF pc = "proponent"
                    THEN [i \in 1..Len(tasks) |-> Call("round", tasks[i])]
                    ELSE <<PendingCall>>
    /\ UNCHANGED <<pc, OPENROUTER_API_KEY, MAX_ROUNDS, all_debate_tasks, round_num,
                   should_continue, tasks, calls, rounds_started, evals, decisions,
                   branches, final_summary, failed_call, exit_code, argv_topic,
                   typed, topic, prompts, previous_tasks_passed>>

\* a sequential crew begins the next task only when none is being executed
BeginCall ==
    /\ pc \in {"proponent", "opponent", "evaluation", "summary"}
    /\ in_flight = <<>>
    /\ in_flight' = <<PendingCall>>
    /\ UNCHANGED <<pc, OPENROUTER_API_KEY, MAX_ROUNDS, all_debate_tasks, round_num,
                   should_continue, tasks, calls, rounds_started, evals, decisions,
                   branches, final_summary, failed_call, exit_code, argv_topic,
                   typed, topic, prompts, previous_tasks_passed>>

\* the Proponent task returns its output
ProponentCall ==
    /\ pc = "proponent"
    /\ in_flight = <<PendingCall>>
    /\ in_flight' = <<>>
    /\ calls' = Append(calls, Call("round", tasks[1]))
    /\ pc' = "opponent"
    /\ UNCHANGED <<previous_tasks_passed, argv_topic, typed, topic, prompts, OPENROUTER_API_KEY, MAX_ROUNDS, all_debate_tasks, round_num,
                   should_continue, tasks, rounds_started, evals, decisions,
                   branches, final_summary, failed_call, exit_code>>

\* the Opponent task returns its output
OpponentCall ==
    /\ pc = "opponent"
    /\ in_flight = <<PendingCall>>
    /\ in_flight' = <<>>
    /\ calls' = Append(calls, Call("round", tasks[2]))
    /\ pc' = "evaluation"
    /\ UNCHANGED <<previous_tasks_passed, argv_topic, typed, topic, prompts, OPENROUTER_API_KEY, MAX_ROUNDS, all_debate_tasks, round_num,
                   should_continue, tasks, rounds_started, evals, decisions,
                   branches, final_summary, failed_call, exit_code>>

\* crew.kickoff returns the evaluation text `result`, run_debate_round returns
\* `returned` as its should_continue; main extends the transcript and branches
EvaluationReturn(result, returned) ==
    LET complete == DebateComplete(result, round_num, MAX_ROUNDS)
    IN  /\ in_flight = <<PendingCall>>
        /\ in_flight' = <<>>
        /\ calls' = Append(calls, Call("round", tasks[3]))
        /\ evals' = Append(evals, result)
        /\ decisions' = Append(decisions, returned)
        /\ all_debate_tasks' = ExtendTasks(all_debate_tasks, tasks)
        /\ branches' = Append(branches, IF complete THEN "COMPLETE" ELSE "CONTINUING")
        /\ should_continue' = IF complete THEN FALSE ELSE returned
        /\ round_num' = IF complete THEN round_num ELSE round_num + 1
        /\ pc' = "loop"
        /\ UNCHANGED <<previous_tasks_passed, argv_topic, typed, topic, prompts, OPENROUTER_API_KEY, MAX_ROUNDS,
                       tasks, rounds_started, final_summary, failed_call, exit_code>>

\* crew.kickoff executes the evaluation task and returns; run_debate_round
\* extracts the decision and returns; main extends the transcript and branches
EvaluationCall ==
    /\ pc = "evaluation"
    /\ \E result \in EvalTexts :
          EvaluationReturn(result, ShouldContinue(result, round_num, MAX_ROUNDS))

\* the same step of main when nothing is assumed of the should_continue that
\* run_debate_round returns
ArbitraryEvaluationCall ==
    /\ pc = "evaluation"
    /\ \E result \in EvalTexts, returned \in BOOLEAN :
          EvaluationReturn(result, returned)

FinalSummary_Discarded ==
    /\ pc = "summary"
    /\ in_flight = <<PendingCall>>
    /\ in_flight' = <<>>
    /\ calls' = Append(calls, Call("summary", tasks[1]))
    /\ pc' = "done"
    /\ exit_code' = "exit0"
    /\ UNCHANGED <<previous_tasks_passed, argv_topic, typed, topic, prompts, OPENROUTER_API_KEY, MAX_ROUNDS, all_debate_tasks, round_num,
                   should_continue, tasks, rounds_started, evals, decisions,
                   branches, final_summary, failed_call>>

\* summary_crew.kickoff returns; main writes the summary and returns
FinalSummary ==
    /\ pc = "summary"
    /\ in_flight = <<PendingCall>>
    /\ in_flight' = <<>>
    /\ calls' = Append(calls, Call("summary", tasks[1]))
    /\ final_summary' = Len(calls) + 1
    /\ pc' = "done"
    /\ exit_code' = "exit0"
    /\ UNCHANGED <<previous_tasks_passed, argv_topic, typed, topic, prompts, OPENROUTER_API_KEY, MAX_ROUNDS, all_debate_tasks, round_num,
                   should_continue, tasks, rounds_started, evals, decisions,
                   branches, failed_call>>

CompletionFails_Swallowed ==
    /\ pc \in {"proponent", "opponent", "evaluation"}
    /\ in_flight = <<PendingCall>>
    /\ in_flight' = <<>>
    /\ calls' = Append(calls, PendingCall)
    /\ failed_call' = Len(calls) + 1
    /\ tasks' = <<SummaryTask(all_debate_tasks)>>
    /\ pc' = "summary"
    /\ UNCHANGED <<previous_tasks_passed, argv_topic, typed, topic, prompts, OPENROUTER_API_KEY, MAX_ROUNDS, all_debate_tasks, round_num,
                   should_continue, rounds_started, evals, decisions, branches,
                   final_summary, exit_code>>

\* a kickoff raises: nothing in run_debate_round or main catches it
CompletionFails ==
    /\ pc \in {"proponent", "opponent", "evaluation", "summary"}
    /\ in_flight = <<PendingCall>>
    /\ in_flight' = <<>>
    /\ calls' = Append(calls, PendingCall)
    /\ failed_call' = Len(calls) + 1
    /\ pc' = "raised"
    /\ exit_code' = "raised"
    /\ UNCHANGED <<previous_tasks_passed, argv_topic, typed, topic, prompts, OPENROUTER_API_KEY, MAX_ROUNDS, all_debate_tasks, round_num,
                   should_continue, tasks, rounds_started, evals, decisions,
                   branches, final_summary>>

Next ==
    \/ LoadModule
    \/ MainStart
    \/ StartRound
    \/ LeaveLoop
    \/ BeginCall
    \/ ProponentCall
    \/ OpponentCall
    \/ EvaluationCall
    \/ FinalSummary
    \/ CompletionFails

Spec == Init /\ [][Next]_vars

\* every step of the program is eventually taken: a call that was begun
\* returns or raises
LiveSpec == Spec /\ WF_vars(Next)

NextArbitraryDecision ==
    \/ LoadModule
    \/ MainStart
    \/ StartRound
    \/ LeaveLoop
    \/ BeginCall
    \/ ProponentCall
    \/ OpponentCall
    \/ ArbitraryEvaluationCall
    \/ FinalSummary
    \/ CompletionFails

\* main, driven by a run_debate_round whose decision is arbitrary
SpecArbitraryDecision == Init /\ [][NextArbitraryDecision]_vars

-----------------------------------------------------------------------------
(* Vocabulary of the properties, stated without the operators of the model *)

\* the explored evaluation outputs in which the word "continue" occurs, in any case
TextsNamingContinue ==
    {TxtContinue, TxtLowerContinue, TxtPaddedContinue, TxtSentence, TxtBoth}

\* P1, O1, ..., Pk, Ok
ExpectedTranscript(k) ==
    [i \in 1..(2 * k) |->
        [agent |-> IF i % 2 = 1 THEN "Proponent" ELSE "Opponent",
         round |-> (i + 1) \div 2]]

SummaryCalls == {i \in DOMAIN calls : calls[i].crew = "summary"}

RoundCallsOf(agent) ==
    {i \in DOMAIN calls : calls[i].crew = "round" /\ calls[i].agent = agent}

-----------------------------------------------------------------------------
(* Properties *)

\* C1: for every MAX_ROUNDS >= 1 and every sequence of evaluation texts, main
\* calls run_debate_round at most MAX_ROUNDS times.
C1_AtMostMaxRounds ==
    MAX_ROUNDS >= 1 => Len(rounds_started) <= MAX_ROUNDS

\* C1 witness: the loop was left after MAX_ROUNDS = 3 rounds had run.
C1_Witness ==
    /\ MAX_ROUNDS = 3
    /\ Len(rounds_started) = 3
    /\ pc = "summary"

\* C2 as stated: the decision of a round is CONTINUE exactly when the response
\* is the exact string "CONTINUE" and the round number is below MAX_ROUNDS; any
\* other response content gives DONE.
C2_ExactStringOnly ==
    \A i \in DOMAIN decisions :
        decisions[i] = (evals[i] = TxtContinue /\ rounds_started[i] < MAX_ROUNDS)

\* C2 amended: the decision of a round is CONTINUE exactly when the response
\* contains the word CONTINUE in any letter case (the exact string included)
\* and the round number is below MAX_ROUNDS; a response without it gives DONE.
C2_ContinueSubstring ==
    \A i \in DOMAIN decisions :
        decisions[i] = (evals[i] \in TextsNamingContinue /\ rounds_started[i] < MAX_ROUNDS)

\* C2 witness: a lower-case "continue" was taken as CONTINUE in round 1 and a
\* text without the word as DONE in round 2, both below MAX_ROUNDS.
C2_Witness ==
    /\ MAX_ROUNDS = 3
    /\ Len(decisions) = 2
    /\ evals[1] = TxtLowerContinue /\ decisions[1]
    /\ evals[2] = TxtGarbage /\ ~decisions[2]

\* C3: in round MAX_ROUNDS the decision is DONE for every evaluation text, no
\* round numbered above MAX_ROUNDS is run, and with MAX_ROUNDS = 1 the summary
\* call follows exactly one round (one Proponent, one Opponent and one
\* evaluation call) with a 2-turn context.
C3_DoneAtMaxRounds ==
    /\ \A i \in DOMAIN decisions :
          rounds_started[i] = MAX_ROUNDS => decisions[i] = FALSE
    /\ \A i \in DOMAIN rounds_started :
          MAX_ROUNDS >= 1 => rounds_started[i] <= MAX_ROUNDS
    /\ (MAX_ROUNDS = 1 /\ SummaryCalls # {}) =>
          /\ Len(rounds_started) = 1
          /\ Cardinality(RoundCallsOf("Proponent")) = 1
          /\ Cardinality(RoundCallsOf("Opponent")) = 1
          /\ Cardinality(RoundCallsOf("Moderator")) = 1
          /\ \A i \in SummaryCalls : Len(calls[i].context) = 2

\* C3 witness: MAX_ROUNDS = 1, the evaluation said CONTINUE, the debate is done.
C3_Witness ==
    /\ MAX_ROUNDS = 1
    /\ evals = <<TxtContinue>>
    /\ pc = "done"

\* C4: the context of the final summary call is exactly P1, O1, ..., Pk, Ok for
\* the k completed rounds, and holds no Moderator evaluation task.
C4_SummaryContext ==
    \A i \in SummaryCalls :
        /\ calls[i].context = ExpectedTranscript(Len(evals))
        /\ \A j \in DOMAIN calls[i].context : calls[i].context[j].agent # "Moderator"

\* C4 witness: the summary call was made after three rounds.
C4_Witness ==
    /\ SummaryCalls # {}
    /\ Len(evals) = 3

\* C5: the summary call is made at most once, only once the loop condition is
\* false, and nothing is called after it; a run that ends without a failed
\* call has made it exactly once and its output is the final summary.
C5_SummaryOnce ==
    /\ Cardinality(SummaryCalls) <= 1
    /\ \A i \in SummaryCalls :
          /\ i = Len(calls)
          /\ pc \in {"done", "raised"}
          /\ ~(should_continue /\ round_num <= MAX_ROUNDS)
    /\ (exit_code # "running" /\ OPENROUTER_API_KEY /\ failed_call = 0) =>
          /\ Cardinality(SummaryCalls) = 1
          /\ final_summary \in SummaryCalls

\* C5 witness: a two-round debate ended with no failed call.
C5_Witness ==
    /\ pc = "done"
    /\ failed_call = 0
    /\ Len(evals) = 2

\* C6: the context of every Opponent call of round N is the transcript of
\* rounds 1..N-1 followed by round N's Proponent task as the last element, and
\* that Proponent task is the call just before it.
C6_OpponentContext ==
    \A i \in RoundCallsOf("Opponent") :
        LET ctx == calls[i].context
            n == calls[i].round
        IN  /\ Len(ctx) = 2 * (n - 1) + 1
            /\ ctx[Len(ctx)] = [agent |-> "Proponent", round |-> n]
            /\ SubSeq(ctx, 1, Len(ctx) - 1) = ExpectedTranscript(n - 1)
            /\ i > 1
            /\ calls[i - 1].agent = "Proponent" /\ calls[i - 1].round = n

\* C6 witness: the Opponent was called in round 2.
C6_Witness ==
    \E i \in RoundCallsOf("Opponent") : calls[i].round = 2 /\ i = Len(calls)

\* C7: when the evaluation text of round N does not name CONTINUE, no round
\* N+1 is run and the summary context has exactly 2*N turns.
C7_FailSafe ==
    \A n \in DOMAIN evals :
        evals[n] \notin TextsNamingContinue =>
            /\ Len(rounds_started) <= n
            /\ \A i \in SummaryCalls : Len(calls[i].context) = 2 * n

\* C7 witness: MAX_ROUNDS = 3, CONTINUE in round 1, garbage in round 2, done.
C7_Witness ==
    /\ MAX_ROUNDS = 3
    /\ evals = <<TxtContinue, TxtGarbage>>
    /\ pc = "done"

\* C8: when the evaluation text is "CONTINUE" in every round before MAX_ROUNDS,
\* the loop is left after exactly MAX_ROUNDS rounds, whatever the last text,
\* and the summary context has 2*MAX_ROUNDS turns.
C8_AllContinue ==
    (/\ MAX_ROUNDS >= 1
     /\ pc = "summary" \/ SummaryCalls # {}
     /\ \A i \in DOMAIN evals : i < MAX_ROUNDS => evals[i] = TxtContinue) =>
        /\ Len(rounds_started) = MAX_ROUNDS
        /\ Len(evals) = MAX_ROUNDS
        /\ Len(all_debate_tasks) = 2 * MAX_ROUNDS
        /\ \A i \in SummaryCalls : Len(calls[i].context) = 2 * MAX_ROUNDS

\* C8 witness: MAX_ROUNDS = 3 with CONTINUE, CONTINUE, DONE.
C8_Witness ==
    /\ MAX_ROUNDS = 3
    /\ evals = <<TxtContinue, TxtContinue, TxtDone>>
    /\ pc = "done"

\* C9: once a call has failed the process has raised: the failed call is the
\* last call made (no retry, no later round, no summary after a failed round)
\* and no final summary exists.
C9_FailurePropagates ==
    failed_call # 0 =>
        /\ pc = "raised"
        /\ exit_code = "raised"
        /\ failed_call = Len(calls)
        /\ final_summary = 0
        /\ calls[failed_call].crew = "round" => SummaryCalls = {}
        /\ Len(rounds_started) = Len(evals) + (IF calls[failed_call].crew = "round" THEN 1 ELSE 0)

\* C9 witness: the Opponent call of round 2 failed.
C9_Witness ==
    /\ failed_call # 0
    /\ calls[failed_call].agent = "Opponent"
    /\ calls[failed_call].round = 2

\* C10 as stated: the process raises exactly when the credential is absent
\* (before any call) or the first call fails; otherwise it exits 0 with the
\* final summary.
C10_RaisesOnlyOnFirstCall ==
    /\ ~OPENROUTER_API_KEY => calls = <<>>
    /\ exit_code # "running" =>
          (exit_code = "raised" <=> (~OPENROUTER_API_KEY \/ failed_call = 1))
    /\ exit_code = "exit0" => final_summary # 0

\* C10 amended: the process raises exactly when the credential is absent
\* (before any call) or some call fails, the first or a later one; otherwise
\* it exits 0 with the final summary.
C10_RaisesOnAnyFailure ==
    /\ ~OPENROUTER_API_KEY => calls = <<>> /\ exit_code # "exit0"
    /\ exit_code # "running" =>
          (exit_code = "raised" <=> (~OPENROUTER_API_KEY \/ failed_call # 0))
    /\ exit_code = "exit0" => final_summary # 0 /\ pc = "done"

\* C10 witness: the process raised on a call later than the first.
C10_Witness ==
    /\ exit_code = "raised"
    /\ OPENROUTER_API_KEY
    /\ failed_call > 1

\* C11: when no topic argument is given (or it is empty) and the typed line is
\* empty or blank, main's topic is the fixed default; nothing is built or
\* called before main has settled the topic, and no task description is ever
\* built with an empty topic.
C11_DefaultTopic ==
    /\ pc \in {"import", "main"} => prompts = <<>> /\ calls = <<>>
    /\ \A i \in DOMAIN prompts : prompts[i].topic # <<>>
    /\ (/\ pc \notin {"import", "main", "raised"} \/ prompts # <<>>
        /\ ~argv_topic.given \/ argv_topic.text = <<>>
        /\ typed.read /\ typed.text \in {TypedEmpty, TypedBlank}) =>
          /\ topic.given /\ topic.text = DEFAULT_TOPIC
          /\ \A i \in DOMAIN prompts : prompts[i].topic = DEFAULT_TOPIC

\* C11 witness: no argument, an empty line typed, and the first round's
\* descriptions have been built.
C11_Witness ==
    /\ argv_topic = NoTopic
    /\ typed = Typed(TypedEmpty)
    /\ Len(prompts) = 3
    /\ pc = "proponent"

\* C12 as stated: once main has tested its loop condition after round N, a
\* round N+1 has been started if and only if the decision run_debate_round
\* returned for round N is CONTINUE.
C12_DecisionAloneDecides ==
    \A i \in DOMAIN decisions :
        \/ pc = "loop" /\ i = Len(decisions)
        \/ decisions[i] <=> Len(rounds_started) > i

\* C13: the decision of run_debate_round is CONTINUE exactly when the text
\* names CONTINUE (in any letter case) and the round is below MAX_ROUNDS; a
\* text that also holds DONE is decided the same way, so the text with both
\* words gives CONTINUE below MAX_ROUNDS.
C13_DoneNotChecked ==
    \A i \in DOMAIN decisions :
        /\ decisions[i] <=> (evals[i] \in TextsNamingContinue /\ i < MAX_ROUNDS)
        /\ (evals[i] = TxtBoth /\ i < MAX_ROUNDS) => decisions[i]
        /\ evals[i] \in {TxtDone, TxtMixedDone} => ~decisions[i]

\* C13 witness: the text with both words was decided CONTINUE in round 1.
C13_Witness ==
    /\ Len(decisions) >= 1
    /\ evals[1] = TxtBoth
    /\ decisions[1]

\* C14: whatever should_continue run_debate_round returns, main starts no
\* round numbered above MAX_ROUNDS and no more than MAX_ROUNDS rounds.
C14_ControllerBound ==
    /\ \A i \in DOMAIN rounds_started : rounds_started[i] <= MAX_ROUNDS
    /\ Len(rounds_started) <= (IF MAX_ROUNDS > 0 THEN MAX_ROUNDS ELSE 0)

\* C14 witness: run_debate_round returned CONTINUE in round MAX_ROUNDS and
\* main has left the loop.
C14_Witness ==
    /\ MAX_ROUNDS = 2
    /\ Len(decisions) = 2
    /\ decisions[2]
    /\ pc = "summary"

\* the order of the task executions of one round
RoundOrder == <<"Proponent", "Opponent", "Moderator">>

\* C15: at most one call is in flight; the calls made so far, the one in
\* flight included, are Proponent, Opponent, Moderator evaluation of round 1,
\* then of round 2, and so on, so each begins after the one before it has
\* returned; nothing is in flight once a call has raised.
C15_TotalOrder ==
    /\ Len(in_flight) <= 1
    /\ failed_call # 0 => in_flight = <<>>
    /\ LET begun == calls \o in_flight
       IN  \A i \in DOMAIN begun :
              begun[i].crew = "round" =>
                  /\ begun[i].agent = RoundOrder[((i - 1) % 3) + 1]
                  /\ begun[i].round = ((i - 1) \div 3) + 1

\* C15 witness: round 2's Proponent call is in flight, after the three calls
\* of round 1 have returned.
C15_Witness ==
    /\ Len(calls) = 3
    /\ in_flight # <<>>
    /\ in_flight[1].agent = "Proponent"
    /\ in_flight[1].round = 2

\* C16: the i-th call of run_debate_round gets round number i, and the
\* transcript it gets is exactly P1, O1, ..., P(i-1), O(i-1); the rebuttal
\* task of a round above 1 has that transcript as its context.
C16_RoundNumbersAndTranscript ==
    /\ Len(previous_tasks_passed) = Len(rounds_started)
    /\ \A i \in DOMAIN rounds_started :
          /\ rounds_started[i] = i
          /\ previous_tasks_passed[i] = ExpectedTranscript(i - 1)
    /\ \A i \in RoundCallsOf("Proponent") :
          calls[i].context = ExpectedTranscript(calls[i].round - 1)

\* C16 witness: a third round was started.
C16_Witness ==
    /\ Len(rounds_started) = 3
    /\ pc = "proponent"

\* C17: the context of the evaluation call of round N is the transcript the
\* round received, then round N's Proponent task, then round N's Opponent task.
C17_EvaluationContext ==
    \A i \in RoundCallsOf("Moderator") :
        LET n == calls[i].round
        IN  calls[i].context =
                previous_tasks_passed[n]
                    \o <<[agent |-> "Proponent", round |-> n],
                         [agent |-> "Opponent", round |-> n]>>

\* C17 witness: the evaluation call of round 2 has returned.
C17_Witness ==
    \E i \in RoundCallsOf("Moderator") : calls[i].round = 2 /\ i = Len(calls)

\* C18: every step leaves the transcript a prefix of the transcript after it;
\* the step that completes round N appends exactly PN then ON, and every
\* other step leaves the transcript as it is.
C18_AppendOnly ==
    [][/\ Len(all_debate_tasks') >= Len(all_debate_tasks)
       /\ SubSeq(all_debate_tasks', 1, Len(all_debate_tasks)) = all_debate_tasks
       /\ Len(evals') = Len(evals) + 1 =>
             all_debate_tasks' =
                 all_debate_tasks
                     \o <<[agent |-> "Proponent", round |-> Len(evals')],
                          [agent |-> "Opponent", round |-> Len(evals')]>>
       /\ evals' = evals => all_debate_tasks' = all_debate_tasks]_vars

\* C18 witness: the transcript holds the four turns of two completed rounds.
C18_Witness ==
    /\ Len(all_debate_tasks) = 4
    /\ Len(evals) = 2

\* C19: the transcript changes only in main's step after a round has
\* returned; while run_debate_round runs, the list it was given is as it was
\* given, and the summary call leaves it equal to the context it was given.
C19_SingleWriter ==
    /\ [](pc \in {"proponent", "opponent", "evaluation"} =>
             all_debate_tasks = previous_tasks_passed[Len(previous_tasks_passed)])
    /\ [](\A i \in SummaryCalls : all_debate_tasks = calls[i].context)
    /\ [][all_debate_tasks' # all_debate_tasks =>
             (pc = "evaluation" /\ pc' = "loop")]_vars

\* C19 witness: run_debate_round has built the contexts of round 2 from a
\* non-empty transcript and its Opponent call is in flight.
C19_Witness ==
    /\ pc = "opponent"
    /\ Len(previous_tasks_passed) = 2
    /\ in_flight # <<>>

\* C20: with MAX_ROUNDS >= 1 a run makes at most 3*MAX_ROUNDS + 1 calls and,
\* every begun call returning or raising, eventually reaches the completed or
\* the failed position; the process stops in no other position.
C20_Terminates ==
    /\ [](MAX_ROUNDS >= 1 => Len(calls) + Len(in_flight) <= 3 * MAX_ROUNDS + 1)
    /\ [](~ENABLED Next => pc \in {"done", "raised"})
    /\ MAX_ROUNDS >= 1 => <>(pc \in {"done", "raised"})

\* C20 witness: a run with MAX_ROUNDS = 3 completed after three rounds.
C20_Witness ==
    /\ MAX_ROUNDS = 3
    /\ Len(evals) = 3
    /\ pc = "done"

\* the explored evaluation outputs in which the word "done" occurs, in any case
TextsNamingDone == {TxtDone, TxtBoth, TxtMixedDone}

\* C21: once main has tested its loop condition after round N, a round N+1
\* has been started if and only if round N's text names CONTINUE, does not
\* name DONE, and N < MAX_ROUNDS; the text with both words stops the debate.
C21_NextRoundIff ==
    \A i \in DOMAIN evals :
        \/ pc = "loop" /\ i = Len(evals)
        \/ Len(rounds_started) > i <=>
               /\ evals[i] \in TextsNamingContinue
               /\ evals[i] \notin TextsNamingDone
               /\ i < MAX_ROUNDS

\* C21 witness: the text with both words in round 1 of 3, and main has left
\* the loop after that round.
C21_Witness ==
    /\ MAX_ROUNDS = 3
    /\ evals = <<TxtBoth>>
    /\ pc = "summary"

\* C22 as stated: for MAX_ROUNDS >= 1, the round_num that main writes as
\* "Total Rounds" once it has the final summary equals the number of rounds
\* that were run.
C22_TotalRoundsIsRoundsRun ==
    (pc = "done" /\ MAX_ROUNDS >= 1) => round_num = Len(rounds_started)

\* C23 as stated: once main has tested its loop condition after round N, it
\* took the "DEBATE CONTINUING" branch for round N if and only if a round N+1
\* has been started; when no further round is run the branch of the last
\* round was "DEBATE COMPLETE".
C23_BranchMatchesOutcome ==
    \A i \in DOMAIN branches :
        \/ pc = "loop" /\ i = Len(branches)
        \/ branches[i] = "CONTINUING" <=> Len(rounds_started) > i

\* C24: with MAX_ROUNDS <= 0 no round is started and no Proponent, Opponent
\* or evaluation call is begun; the only call is the summary call, with an
\* empty context, made at most once and exactly once in a completed run.
C24_NoRoundsWhenNonPositive ==
    MAX_ROUNDS <= 0 =>
        /\ rounds_started = <<>>
        /\ \A i \in DOMAIN calls : calls[i].crew = "summary" /\ calls[i].context = <<>>
        /\ \A i \in DOMAIN in_flight :
              in_flight[i].crew = "summary" /\ in_flight[i].context = <<>>
        /\ Len(calls) <= 1
        /\ pc = "done" => Len(calls) = 1 /\ final_summary = 1

\* C24 witness: MAX_ROUNDS = 0 and the run has completed.
C24_Witness ==
    /\ MAX_ROUNDS = 0
    /\ pc = "done"

====
